---- MODULE Spec2Model ----
(***************************************************************************)
(* State-machine model of the DPC3000 pressure controller driver           *)
(* (src/pressure_controller.py, src/constants.py).                         *)
(*                                                                         *)
(* A session owns one serial handle.  Every method of PressureController   *)
(* is an operation; the multi round-trip methods (set_press, vent_press)   *)
(* advance one transport round trip per step, the others are one step.     *)
(* The device is the environment: when a command is written it queues its  *)
(* answer, a line, in the handle's input buffer rx; readline takes the     *)
(* oldest line of rx.  Lines are sequences of characters.  Pressures are   *)
(* counted in tenths of a bar.                                             *)
(***************************************************************************)
EXTENDS Integers, Sequences, FiniteSets, TLC

(***************************************************************************)
(* Bounds of the model.                                                    *)
(***************************************************************************)
MaxOps   == 2     \* operations called on one session before teardown
MaxPolls == 3     \* polling iterations explored inside set_press / vent_press
MaxSteps == 2     \* largest pulse count given to tick_press / tick_vac
PressLo  == 18    \* lowest pressure the device reports, in tenths of a bar
PressHi  == 21    \* highest pressure the device reports, in tenths of a bar

(***************************************************************************)
(* constants.py                                                            *)
(***************************************************************************)
CR == "\r"

CHECK          == [head |-> "@check",          payload |-> <<>>]
READPRESS      == [head |-> "@ReadPress:bar",  payload |-> <<>>]
STOP           == [head |-> "@Stop",           payload |-> <<>>]
VENT           == [head |-> "@Vent",           payload |-> <<>>]
TICKVAC        == [head |-> "@TickVac",        payload |-> <<>>]
READMODE       == [head |-> "@ReadMode",       payload |-> <<>>]
READSTATUS     == [head |-> "@ReadStatus",     payload |-> <<>>]
READSTATUS_BIN == [head |-> "@ReadStatus:bin", payload |-> <<>>]
TP             == [head |-> "@tp",             payload |-> <<>>]
NoCmd          == [head |-> "",                payload |-> <<>>]

\* ct.SETMODE + mode + "\r"
SETMODE(mode) == [head |-> "@SetMode:", payload |-> <<mode>>]

PRECISSION == 1   \* 0.1 bar

MODES == {"Control", "Measure", "Vent"}

PRESS_ERRORS ==
  { <<"C","E","R">>, <<"P","E","R">>, <<"V","E","R">>, <<"T","E","R">>,
    <<"F","E","R">>, <<"S","E","R">>,
    <<"E","r","r","U","n","k","n","C","m","d">>,
    <<"E","r","r","F","u","n","c","t","i","o","n">>,
    <<"E","r","r","P","a","r","a","m","e","t","e","r">> }

PRESS_STATUS ==
  (1   :> "Pressure is within the tolerance band") @@
  (2   :> "Fine control (PI control) completed") @@
  (4   :> "Coarse control completed") @@
  (8   :> "Venting valve is open") @@
  (16  :> "Controller is in overload state") @@
  (32  :> "Zero offset compensation is active") @@
  (64  :> "Controller timeout") @@
  (128 :> "Controller is in stop state")

(***************************************************************************)
(* Integer helpers: Python's n & m for a mask m that is a power of two,    *)
(* and 1 << k.                                                             *)
(***************************************************************************)
RECURSIVE Shl1(_)
Shl1(k) == IF k = 0 THEN 1 ELSE 2 * Shl1(k - 1)

BitAnd(n, m) == IF (n \div m) % 2 = 1 THEN m ELSE 0

Abs(x) == IF x < 0 THEN -x ELSE x

(***************************************************************************)
(* Text helpers.                                                           *)
(***************************************************************************)
Digits == <<"0","1","2","3","4","5","6","7","8","9">>

IsDigit(c) == \E i \in 1..10 : Digits[i] = c

DigitVal(c) == (CHOOSE i \in 1..10 : Digits[i] = c) - 1

\* decimal digits of a natural number
RECURSIVE DecStr(_)
DecStr(n) == IF n < 10 THEN <<Digits[n + 1]>>
             ELSE Append(DecStr(n \div 10), Digits[(n % 10) + 1])

\* binary digits of a natural number
RECURSIVE BinStr(_)
BinStr(n) == IF n < 2 THEN <<Digits[n + 1]>>
             ELSE Append(BinStr(n \div 2), Digits[(n % 2) + 1])

\* str.rstrip("\r"): every trailing carriage return is removed
RECURSIVE rstrip_cr(_)
rstrip_cr(s) == IF s # <<>> /\ s[Len(s)] = CR
                THEN rstrip_cr(SubSeq(s, 1, Len(s) - 1))
                ELSE s

\* str.lstrip of the white space the model's alphabet has (CR)
RECURSIVE lstrip_cr(_)
lstrip_cr(s) == IF s # <<>> /\ s[1] = CR THEN lstrip_cr(Tail(s)) ELSE s

\* str.strip(), as int() and float() apply it to their argument
strip(s) == lstrip_cr(rstrip_cr(s))

\* s[:-1]
DropLast(s) == IF s = <<>> THEN <<>> ELSE SubSeq(s, 1, Len(s) - 1)

\* str.replace(",", ".")
\* variant: the response is handed to float() as received
replace_comma_none(s) == s

replace_comma(s) == [i \in 1..Len(s) |-> IF s[i] = "," THEN "." ELSE s[i]]

\* value of a non-empty digit string in a base
RECURSIVE DigitsVal(_, _)
DigitsVal(s, base) ==
  IF s = <<>> THEN 0
  ELSE DigitsVal(DropLast(s), base) * base + DigitVal(s[Len(s)])

AllDigits(s, base) ==
  \A i \in 1..Len(s) : IsDigit(s[i]) /\ DigitVal(s[i]) < base

Parsed(n)  == [ok |-> TRUE,  val |-> n]
ValueError == [ok |-> FALSE, val |-> 0]

\* int(text, base) for unsigned digit strings; anything else the model's
\* alphabet can spell (letters, separators, the empty string) is a ValueError
py_int(text, base) ==
  LET s == strip(text)
  IN  IF s # <<>> /\ AllDigits(s, base) THEN Parsed(DigitsVal(s, base))
      ELSE ValueError

\* float(text), in tenths of a bar, for the shapes "d+", "d+." and "d+.d";
\* anything else the model's alphabet can spell is a ValueError
py_float(text) ==
  LET s == strip(text)
      n == Len(s)
      dots == {i \in 1..n : s[i] = "."}
  IN  IF n > 0 /\ dots = {} /\ AllDigits(s, 10)
        THEN Parsed(10 * DigitsVal(s, 10))
      ELSE IF n > 1 /\ dots = {n} /\ AllDigits(SubSeq(s, 1, n - 1), 10)
        THEN Parsed(10 * DigitsVal(SubSeq(s, 1, n - 1), 10))
      ELSE IF n > 2 /\ dots = {n - 1} /\ AllDigits(SubSeq(s, 1, n - 2), 10)
                    /\ IsDigit(s[n])
        THEN Parsed(10 * DigitsVal(SubSeq(s, 1, n - 2), 10) + DigitVal(s[n]))
      ELSE ValueError


(***************************************************************************)
(* abs(pressure_read_value - press_value) > ct.PRECISSION is evaluated on  *)
(* IEEE doubles.  For readings and targets with one decimal the result     *)
(* differs from the decimal one only when the two are exactly one tenth    *)
(* apart; FloatAbove lists the lower value (in tenths, up to 3.0 bar) of   *)
(* the pairs for which the double difference is above the double 0.1.      *)
(***************************************************************************)
FloatAbove == {3, 7, 10, 12, 14, 15, 17, 19, 20, 21, 23, 24, 25, 26, 28, 29}

Min2(a, b) == IF a < b THEN a ELSE b
Max2(a, b) == IF a > b THEN a ELSE b

OutOfPrecision(measured, target) ==
  \/ Abs(measured - target) > PRECISSION
  \/ /\ Abs(measured - target) = PRECISSION
     /\ Min2(measured, target) \in FloatAbove

(***************************************************************************)
(* translate_status                                                        *)
(***************************************************************************)
NBits == 8

\* mutant of what_bit_is_set: the mask is 1 << k
what_bit_is_set_shifted(n, k) ==
  LET tmp == BitAnd(n, Shl1(k))
  IN  IF tmp # 0
      THEN <<IF tmp \in DOMAIN PRESS_STATUS THEN PRESS_STATUS[tmp] ELSE "ukn">>
      ELSE <<>>

\* lines 277-285
what_bit_is_set(n, k) ==
  LET tmp == BitAnd(n, Shl1(k - 1))
  IN  IF tmp # 0
      THEN <<IF tmp \in DOMAIN PRESS_STATUS THEN PRESS_STATUS[tmp] ELSE "ukn">>
      ELSE <<>>

RECURSIVE BitsFrom(_, _)
BitsFrom(n, i) ==
  IF i >= NBits THEN <<>>
  ELSE what_bit_is_set(n, i + 1) \o BitsFrom(n, i + 1)

\* the lines translate_status prints, in order
translate_status(received_status) ==
  IF received_status \in DOMAIN PRESS_STATUS
  THEN <<PRESS_STATUS[received_status]>>
  ELSE BitsFrom(received_status, 0)

(***************************************************************************)
(* The device.  DeviceAnswers(cmd, acks) is the set of lines the device    *)
(* may queue when cmd is written; NoAnswer stands for queueing nothing.    *)
(* Queries are answered with a value or with an error token.  @Stop, @Vent *)
(* and @check are acknowledged (the driver reads one line after each).     *)
(* Whether @SetMode, @SetPress and @TickVac are acknowledged is a property *)
(* of the device the driver never looks at: acks says which.               *)
(***************************************************************************)
NoAnswer == <<>>

Ack == <<"O", "K", CR>>

DevStatus == {0, 1, 3, 8, 64, 128}

ModeLines ==
  { <<"C","o","n","t","r","o","l",CR>>,
    <<"M","e","a","s","u","r","e",CR>>,
    <<"V","e","n","t",CR>> }

\* the error tokens the modelled device uses: one short code, one long code
DevErrors == { <<"C","E","R">>, <<"E","r","r","U","n","k","n","C","m","d">> }

ErrorLines == {Append(e, CR) : e \in DevErrors}

\* a pressure of p tenths written with the given decimal separator
PressLine(p, sep) == DecStr(p \div 10) \o <<sep, Digits[(p % 10) + 1], CR>>

PressLines == {PressLine(p, sep) : p \in PressLo..PressHi, sep \in {".", ","}}

DeviceAnswers(cmd, acks) ==
  IF cmd = READPRESS THEN PressLines \cup ErrorLines
  ELSE IF cmd = READSTATUS
    THEN {Append(DecStr(s), CR) : s \in DevStatus} \cup ErrorLines
  ELSE IF cmd = READSTATUS_BIN
    THEN {Append(BinStr(s), CR) : s \in DevStatus} \cup ErrorLines
  ELSE IF cmd = READMODE THEN ModeLines \cup ErrorLines
  ELSE IF cmd \in {CHECK, STOP, VENT} THEN {Ack}
  ELSE IF cmd = TP THEN {NoAnswer}
  ELSE IF acks THEN {Ack} ELSE {NoAnswer}


(***************************************************************************)
(* State.                                                                  *)
(*   ser      self.ser: "None" (the port could not be opened), or the      *)
(*            handle, "open" or "closed"                                   *)
(*   alive    the session object exists (FALSE once __del__ has run)       *)
(*   closes   how many times ser.close() has been invoked                  *)
(*   rx       the handle's input buffer: lines the device has sent and the *)
(*            driver has not read, each with the command it answers        *)
(*   devAcks  the device acknowledges @SetMode, @SetPress and @TickVac     *)
(*   ncalls   operations called so far                                     *)
(*   op       the operation running or last run, with its arguments        *)
(*   pc       position inside op; "idle" between operations                *)
(*   outcome  "running", "returned", or the exception op ended with        *)
(*   result   the value op returned                                        *)
(*   out      status descriptions and validation message printed by the    *)
(*            latest step                                                  *)
(*   io       transport use of op: commands written, readline calls, the   *)
(*            line last read, and the largest number of unread lines that  *)
(*            were pending when op wrote a command                         *)
(*   loc      local variables of set_press / vent_press (new_status lives  *)
(*            only in the step that reads and compares it)                 *)
(*   obs      what the device has shown during op (used by the properties) *)
(***************************************************************************)
VARIABLES ser, alive, closes, rx, devAcks,
          ncalls, op, pc, outcome, result, out, io, loc, obs

vars == <<ser, alive, closes, rx, devAcks,
          ncalls, op, pc, outcome, result, out, io, loc, obs>>

Call(name, mode, num, info, opt) ==
  [name |-> name, mode |-> mode, num |-> num, info |-> info, opt |-> opt]

NoCall == Call("", "", 0, FALSE, FALSE)

None     == [kind |-> "None",  num |-> 0, txt |-> <<>>]
PyFloat(n) == [kind |-> "float", num |-> n, txt |-> <<>>]
PyStr(s) == [kind |-> "str",   num |-> 0, txt |-> s]

NoLine == [cmd |-> NoCmd, chars |-> <<>>]

IO0 == [wr |-> <<>>, nread |-> 0, line |-> NoLine, pend |-> 0]

Loc0 == [pressure_read_value |-> 0, status |-> 0, iters |-> 0]

Obs0 == [polls |-> 0, setPolls |-> 0, fatalSeen |-> FALSE,
         scriptOK |-> TRUE, devInBand |-> FALSE]

InvalidModes == {"Invalid", "control", ""}

Targets == {18, 20}

InvalidModeMsg == "Please choose a correct mode [Control, Measure, Vent]"

(***************************************************************************)
(* The transport, as a pair t = [io, rx].                                  *)
(***************************************************************************)
\* self.ser.write(cmd), and the device queueing its answer
write(t, cmd, ans) ==
  [io |-> [t.io EXCEPT !.wr = Append(@, cmd),
                       !.pend = Max2(@, Len(t.rx))],
   rx |-> IF ans = NoAnswer THEN t.rx
          ELSE Append(t.rx, [cmd |-> cmd, chars |-> ans])]

\* self.ser.readline(): the oldest unread line, or after the read timeout
\* the empty string; with fault the call raises serial.SerialException and
\* what was buffered is lost
readline(t, fault) ==
  IF fault \/ t.rx = <<>>
  THEN [io |-> [t.io EXCEPT !.nread = @ + 1, !.line = NoLine], rx |-> <<>>]
  ELSE [io |-> [t.io EXCEPT !.nread = @ + 1, !.line = Head(t.rx)],
        rx |-> Tail(t.rx)]

\* the answers to a command whose answer is read next: when the read is
\* going to fail the answer is lost, whatever it was
Answers(cmd, fault) ==
  IF fault THEN {CHOOSE a \in DeviceAnswers(cmd, devAcks) : TRUE}
  ELSE DeviceAnswers(cmd, devAcks)

\* the exception of a write on a handle that is absent or closed
WriteError == IF ser = "None" THEN "AttributeError" ELSE "SerialException"

Exc(fault, parsed) ==
  IF fault THEN "SerialException" ELSE IF parsed.ok THEN "" ELSE "ValueError"

\* str(press_value) of a float with one decimal
py_str(v) == DecStr(v \div 10) \o <<".", Digits[(v % 10) + 1]>>

SETPRESS(press_value) == [head |-> "@SetPress:", payload |-> py_str(press_value)]

\* mutant of mode_accepted: the membership test is missing
mode_accepted_any(mode) == TRUE

\* line 67
mode_accepted(mode) == mode \in MODES

\* variant: the mode command is sent again
set_mode_twice(t, mode, ans) ==
  IF mode \in MODES
  THEN write(write(t, SETMODE(mode), ans), SETMODE(mode), ans) ELSE t

set_mode(t, mode, ans) ==
  IF mode_accepted(mode) THEN write(t, SETMODE(mode), ans) ELSE t

read_press(t, ans, fault) ==
  LET t2 == readline(write(t, READPRESS, ans), fault)
      v  == py_float(replace_comma(t2.io.line.chars))
  IN  [io |-> t2.io, rx |-> t2.rx, exc |-> Exc(fault, v), val |-> v.val]

StatusCmd(binar) == IF binar THEN READSTATUS_BIN ELSE READSTATUS

read_status(t, binar, ans, fault) ==
  LET t2 == readline(write(t, StatusCmd(binar), ans), fault)
      v  == py_int(DropLast(t2.io.line.chars), IF binar THEN 2 ELSE 10)
  IN  [io |-> t2.io, rx |-> t2.rx, exc |-> Exc(fault, v), val |-> v.val]


PyInt(n) == [kind |-> "int", num |-> n, txt |-> <<>>]

(***************************************************************************)
(* __init__ and open_serial_port: serial.Serial(...) either yields an open *)
(* handle or raises SerialException, which open_serial_port catches,       *)
(* leaving self.ser = None; __init__ ignores the returned flag.            *)
(***************************************************************************)
open_serial_port(opened) == IF opened THEN "open" ELSE "None"

Init ==
  /\ \E opened \in BOOLEAN : ser = open_serial_port(opened)
  /\ devAcks \in BOOLEAN
  /\ alive = TRUE
  /\ closes = 0
  /\ rx = <<>>
  /\ ncalls = 0
  /\ op = NoCall
  /\ pc = "idle"
  /\ outcome = "returned"
  /\ result = None
  /\ out = <<>>
  /\ io = IO0
  /\ loc = Loc0
  /\ obs = Obs0

CanCall == alive /\ pc = "idle" /\ ncalls < MaxOps

T0 == [io |-> IO0, rx |-> rx]

\* a one-step operation c ends: t is the transport after it, exc the
\* exception it raised ("" for none), res its value, printed its output
Finish(c, t, exc, res, printed) ==
  /\ op' = c
  /\ ncalls' = ncalls + 1
  /\ pc' = "idle"
  /\ io' = t.io
  /\ rx' = t.rx
  /\ outcome' = IF exc = "" THEN "returned" ELSE exc
  /\ result' = IF exc = "" THEN res ELSE None
  /\ out' = printed
  /\ loc' = Loc0
  /\ obs' = Obs0

\* the first write of c raises: the handle is absent or closed
Raise(c) == Finish(c, T0, WriteError, None, <<>>)

Session == <<ser, alive, closes, devAcks>>

(***************************************************************************)
(* One-step operations.                                                    *)
(***************************************************************************)
ReadMode ==
  /\ CanCall
  /\ LET c == Call("read_mode", "", 0, FALSE, FALSE)
     IN  IF ser # "open" THEN Raise(c)
         ELSE \E fault \in BOOLEAN : \E ans \in Answers(READMODE, fault) :
                LET t == readline(write(T0, READMODE, ans), fault)
                IN  Finish(c, t, IF fault THEN "SerialException" ELSE "",
                           PyStr(rstrip_cr(t.io.line.chars)), <<>>)
  /\ UNCHANGED Session

SetMode ==
  /\ CanCall
  /\ \E mode \in MODES \cup InvalidModes :
       LET c == Call("set_mode", mode, 0, FALSE, FALSE)
       IN  IF ~mode_accepted(mode)
             THEN Finish(c, T0, "", None, <<InvalidModeMsg>>)
           ELSE IF ser # "open" THEN Raise(c)
           ELSE \E ans \in DeviceAnswers(SETMODE(mode), devAcks) :
                  Finish(c, set_mode(T0, mode, ans), "", None, <<>>)
  /\ UNCHANGED Session

\* variant: stopping the controller also stops the serial communication
stop_port_closed(handle) == "closed"

\* lines 83-88: stop_press leaves the handle as it found it
stop_port(handle) == handle

StopPress ==
  /\ CanCall
  /\ LET c == Call("stop_press", "", 0, FALSE, FALSE)
     IN  IF ser # "open" THEN Raise(c)
         ELSE \E fault \in BOOLEAN : \E ans \in Answers(STOP, fault) :
                Finish(c, readline(write(T0, STOP, ans), fault),
                       IF fault THEN "SerialException" ELSE "", None, <<>>)
  /\ ser' = stop_port(ser)
  /\ UNCHANGED <<alive, closes, devAcks>>

ReadPress ==
  /\ CanCall
  /\ LET c == Call("read_press", "", 0, TRUE, FALSE)
     IN  IF ser # "open" THEN Raise(c)
         ELSE \E fault \in BOOLEAN : \E ans \in Answers(READPRESS, fault) :
                LET r == read_press(T0, ans, fault)
                IN  Finish(c, r, r.exc, PyFloat(r.val), <<>>)
  /\ UNCHANGED Session

ReadStatus ==
  /\ CanCall
  /\ \E binar \in BOOLEAN :
       LET c == Call("read_status", "", 0, TRUE, binar)
       IN  IF ser # "open" THEN Raise(c)
           ELSE \E fault \in BOOLEAN : \E ans \in Answers(StatusCmd(binar), fault) :
                  LET r == read_status(T0, binar, ans, fault)
                  IN  Finish(c, r, r.exc, PyInt(r.val), <<>>)
  /\ UNCHANGED Session

\* mutant of after_check: serial_stop is skipped when readline raised
after_check_leak(failed) == IF failed THEN "open" ELSE "closed"

\* self.ser after line 196 of press_connection; failed says whether
\* readline raised SerialException (caught at line 193)
after_check(failed) == "closed"

PressConnection ==
  /\ CanCall
  /\ LET c == Call("press_connection", "", 0, FALSE, FALSE)
     IN  IF ser # "open"
           THEN Raise(c) /\ UNCHANGED <<ser, closes>>
         ELSE \E fault \in BOOLEAN : \E ans \in Answers(CHECK, fault) :
                LET t == readline(write(T0, CHECK, ans), fault)
                IN  /\ Finish(c, t, "", PyStr(t.io.line.chars), <<>>)
                    /\ ser' = after_check(fault)
                    /\ closes' = IF ser' = "closed" THEN closes + 1 ELSE closes
  /\ UNCHANGED <<alive, devAcks>>

SerialStop ==
  /\ CanCall
  /\ LET c == Call("serial_stop", "", 0, FALSE, FALSE)
     IN  IF ser = "None"
           THEN Raise(c) /\ UNCHANGED <<ser, closes>>
         ELSE /\ Finish(c, T0, "", None, <<>>)
              /\ ser' = "closed"
              /\ closes' = closes + 1
  /\ UNCHANGED <<alive, devAcks>>

\* variant: the pulse command is written once however many steps are asked
PulsesOnce(t, steps) == IF steps <= 0 THEN t ELSE write(t, TP, NoAnswer)

\* steps writes of the pulse command, none of them answered or read
RECURSIVE Pulses(_, _)
Pulses(t, steps) ==
  IF steps <= 0 THEN t ELSE Pulses(write(t, TP, NoAnswer), steps - 1)

TickPress ==
  /\ CanCall
  /\ \E steps \in 0..MaxSteps :
       LET c == Call("tick_press", "", steps, FALSE, FALSE)
       IN  IF steps > 0 /\ ser # "open" THEN Raise(c)
           ELSE Finish(c, Pulses(T0, steps), "", None, <<>>)
  /\ UNCHANGED Session

TickVac ==
  /\ CanCall
  /\ \E steps \in 0..MaxSteps :
       LET c == Call("tick_vac", "", steps, FALSE, FALSE)
       IN  IF ser # "open" THEN Raise(c)
           ELSE \E ans \in DeviceAnswers(TICKVAC, devAcks) :
                  Finish(c, Pulses(write(T0, TICKVAC, ans), steps), "", None, <<>>)
  /\ UNCHANGED Session

TranslateStatus ==
  /\ CanCall
  /\ \E n \in 0..(Shl1(NBits) - 1) :
       Finish(Call("translate_status", "", n, FALSE, FALSE), T0, "", None,
              translate_status(n))
  /\ UNCHANGED Session

\* __del__
Del ==
  /\ alive
  /\ pc = "idle"
  /\ alive' = FALSE
  /\ ser' = IF ser # "None" THEN "closed" ELSE ser
  /\ closes' = IF ser # "None" THEN closes + 1 ELSE closes
  /\ UNCHANGED <<rx, devAcks, ncalls, op, pc, outcome, result, out, io, loc, obs>>


(***************************************************************************)
(* Steps of the operations that take several round trips.                  *)
(***************************************************************************)
\* one step of the running operation: t is the transport after it
Step(t, pc2, outcome2, result2, printed, loc2, obs2) ==
  /\ io' = t.io
  /\ rx' = t.rx
  /\ pc' = pc2
  /\ outcome' = outcome2
  /\ result' = result2
  /\ out' = printed
  /\ loc' = loc2
  /\ obs' = obs2
  /\ UNCHANGED <<op, ncalls, ser, alive, closes, devAcks>>

\* the running operation ends with exception exc
Abort(t, exc, obs2) == Step(t, "idle", exc, None, <<>>, loc, obs2)

\* the first step of operation c
Begin(c, t, pc2, obs2) ==
  /\ op' = c
  /\ ncalls' = ncalls + 1
  /\ io' = t.io
  /\ rx' = t.rx
  /\ pc' = pc2
  /\ outcome' = "running"
  /\ result' = None
  /\ out' = <<>>
  /\ loc' = Loc0
  /\ obs' = obs2
  /\ UNCHANGED Session

Now == [io |-> io, rx |-> rx]

\* |measured - target| <= precision, in decimal arithmetic
WithinPrecision(measured, target) == Abs(measured - target) <= PRECISSION

\* what the device has shown: a pressure answer to a query of set_press
ObsPress(o, target, ans, fault) ==
  LET v   == py_float(replace_comma(ans))
      inb == v.ok /\ WithinPrecision(v.val, target)
  IN  [o EXCEPT !.scriptOK = @ /\ ~fault /\ v.ok /\ (o.devInBand => inb),
                !.devInBand = inb]

\* what the device has shown: a status answer to a query of set_press
ObsStatus(o, ans, fault) ==
  LET v == py_int(DropLast(ans), 10)
  IN  [o EXCEPT !.scriptOK = @ /\ ~fault /\ v.ok
                              /\ BitAnd(v.val, 64) = 0 /\ BitAnd(v.val, 128) = 0
                              /\ (BitAnd(v.val, 1) # 0 => o.devInBand)]

\* variant: the comparison of the loop condition is turned round
LoopGuardBelow(pressure_read_value, press_value, status) ==
  ~OutOfPrecision(pressure_read_value, press_value) /\ BitAnd(status, 1) = 0

\* lines 150-152: the condition of the while loop of set_press
LoopGuard(pressure_read_value, press_value, status) ==
  OutOfPrecision(pressure_read_value, press_value) /\ BitAnd(status, 1) = 0

\* line 162
Fatal(status) == BitAnd(status, 64) # 0 \/ BitAnd(status, 128) # 0

\* where set_press goes after evaluating the loop condition
AfterGuard(l) ==
  IF LoopGuard(l.pressure_read_value, op.num, l.status) THEN "sp_loop"
  ELSE "sp_final"

\* lines 138-145: set_mode() and the @SetPress command
SetPressBegin ==
  /\ CanCall
  /\ \E press_value \in Targets, show_status_change \in BOOLEAN :
       LET c == Call("set_press", "", press_value, FALSE, show_status_change)
       IN  IF ser # "open" THEN Raise(c)
           ELSE \E a1 \in DeviceAnswers(SETMODE("Control"), devAcks),
                   a2 \in DeviceAnswers(SETPRESS(press_value), devAcks) :
                  Begin(c, write(set_mode(T0, "Control", a1),
                                 SETPRESS(press_value), a2),
                        "sp_read", Obs0)
  /\ UNCHANGED Session

\* line 146
SetPressRead ==
  /\ pc = "sp_read"
  /\ \E fault \in BOOLEAN : \E ans \in Answers(READPRESS, fault) :
       LET r  == read_press(Now, ans, fault)
           o2 == ObsPress(obs, op.num, ans, fault)
       IN  IF r.exc # "" THEN Abort(r, r.exc, o2)
           ELSE Step(r, "sp_status0", "running", None, <<>>,
                     [loc EXCEPT !.pressure_read_value = r.val], o2)

\* lines 147-152
SetPressStatus0 ==
  /\ pc = "sp_status0"
  /\ \E fault \in BOOLEAN : \E ans \in Answers(READSTATUS, fault) :
       LET r  == read_status(Now, FALSE, ans, fault)
           o2 == ObsStatus(obs, ans, fault)
           l2 == [loc EXCEPT !.status = r.val]
       IN  IF r.exc # "" THEN Abort(r, r.exc, o2)
           ELSE Step(r, AfterGuard(l2), "running", None,
                     translate_status(r.val), l2, o2)

\* lines 153-154
SetPressLoopPress ==
  /\ pc = "sp_loop"
  /\ loc.iters < MaxPolls
  /\ \E fault \in BOOLEAN : \E ans \in Answers(READPRESS, fault) :
       LET r  == read_press(Now, ans, fault)
           o2 == ObsPress(obs, op.num, ans, fault)
       IN  IF r.exc # "" THEN Abort(r, r.exc, o2)
           ELSE Step(r, IF op.opt THEN "sp_new_status" ELSE "sp_status",
                     "running", None, <<>>,
                     [loc EXCEPT !.pressure_read_value = r.val,
                                 !.iters = @ + 1], o2)

\* lines 156-159
SetPressNewStatus ==
  /\ pc = "sp_new_status"
  /\ \E fault \in BOOLEAN : \E ans \in Answers(READSTATUS, fault) :
       LET r  == read_status(Now, FALSE, ans, fault)
           o2 == [ObsStatus(obs, ans, fault) EXCEPT
                    !.fatalSeen = @ \/ (r.exc = "" /\ Fatal(r.val))]
       IN  IF r.exc # "" THEN Abort(r, r.exc, o2)
           ELSE Step(r, "sp_status", "running", None,
                     IF r.val # loc.status THEN translate_status(loc.status)
                     ELSE <<>>,
                     loc, o2)

\* lines 161-164, and the loop condition again
SetPressStatus ==
  /\ pc = "sp_status"
  /\ \E fault \in BOOLEAN : \E ans \in Answers(READSTATUS, fault) :
       LET r  == read_status(Now, FALSE, ans, fault)
           o2 == [ObsStatus(obs, ans, fault) EXCEPT
                    !.fatalSeen = @ \/ (r.exc = "" /\ Fatal(r.val))]
           l2 == [loc EXCEPT !.status = r.val]
       IN  IF r.exc # "" THEN Abort(r, r.exc, o2)
           ELSE IF Fatal(r.val)
             THEN Step(r, "idle", "returned", PyFloat(loc.pressure_read_value),
                       translate_status(r.val), l2, o2)
           ELSE Step(r, AfterGuard(l2), "running", None, <<>>, l2, o2)

\* variant: the reading taken after the loop is not the one handed back
final_read_dropped(pressure_read_value, reading) == pressure_read_value

\* line 166: the reading taken after the loop replaces the loop's
final_read(pressure_read_value, reading) == reading

\* lines 166-168
SetPressFinal ==
  /\ pc = "sp_final"
  /\ \E fault \in BOOLEAN : \E ans \in Answers(READPRESS, fault) :
       LET r  == read_press(Now, ans, fault)
           o2 == ObsPress(obs, op.num, ans, fault)
       IN  IF r.exc # "" THEN Abort(r, r.exc, o2)
           ELSE LET v == final_read(loc.pressure_read_value, r.val)
                IN  Step(r, "idle", "returned", PyFloat(v), <<>>,
                         [loc EXCEPT !.pressure_read_value = v], o2)

\* mutant of VentOpen: the bit number is used as the mask
VentOpenBitNumber(status) == BitAnd(status, 4) # 0

\* line 101: the condition of the while loop of vent_press
VentOpen(status) == BitAnd(status, 8) # 0

\* lines 97-98
vent_send(t, ans, fault) == readline(write(t, VENT, ans), fault)

\* lines 92-98: with info the pressure is read first
VentBegin ==
  /\ CanCall
  /\ \E info \in BOOLEAN :
       LET c == Call("vent_press", "", 0, info, FALSE)
       IN  IF ser # "open" THEN Raise(c)
           ELSE IF info
             THEN \E fault \in BOOLEAN : \E ans \in Answers(READPRESS, fault) :
                    LET r == read_press(T0, ans, fault)
                    IN  IF r.exc # "" THEN Finish(c, r, r.exc, None, <<>>)
                        ELSE Begin(c, r, "v_vent", Obs0)
           ELSE \E fault \in BOOLEAN : \E ans \in Answers(VENT, fault) :
                  LET t == vent_send(T0, ans, fault)
                  IN  IF fault THEN Finish(c, t, "SerialException", None, <<>>)
                      ELSE Begin(c, t, "v_poll", Obs0)
  /\ UNCHANGED Session

\* lines 97-98, after the pressure was read
VentSend ==
  /\ pc = "v_vent"
  /\ \E fault \in BOOLEAN : \E ans \in Answers(VENT, fault) :
       LET t == vent_send(Now, ans, fault)
       IN  IF fault THEN Abort(t, "SerialException", obs)
           ELSE Step(t, "v_poll", "running", None, <<>>, loc, obs)

\* lines 100-102: one status poll
VentPoll ==
  /\ pc = "v_poll"
  /\ obs.polls <= MaxPolls
  /\ \E fault \in BOOLEAN : \E ans \in Answers(READSTATUS, fault) :
       LET r  == read_status(Now, FALSE, ans, fault)
           o2 == [obs EXCEPT !.polls = @ + 1,
                             !.setPolls = IF r.exc = "" /\ BitAnd(r.val, 8) # 0
                                          THEN @ + 1 ELSE @]
           l2 == [loc EXCEPT !.status = r.val]
       IN  IF r.exc # "" THEN Abort(r, r.exc, o2)
           ELSE IF VentOpen(r.val)
             THEN Step(r, "v_poll", "running", None, <<>>, l2, o2)
           ELSE IF op.info
             THEN Step(r, "v_final", "running", None, <<>>, l2, o2)
           ELSE Step(r, "idle", "returned", None, <<>>, l2, o2)

\* lines 104-107
VentFinal ==
  /\ pc = "v_final"
  /\ \E fault \in BOOLEAN : \E ans \in Answers(READPRESS, fault) :
       LET r == read_press(Now, ans, fault)
       IN  IF r.exc # "" THEN Abort(r, r.exc, obs)
           ELSE Step(r, "idle", "returned", None, <<>>, loc, obs)

Next ==
  \/ ReadMode
  \/ SetMode
  \/ StopPress
  \/ ReadPress
  \/ ReadStatus
  \/ PressConnection
  \/ SerialStop
  \/ TickPress
  \/ TickVac
  \/ SetPressBegin
  \/ SetPressRead
  \/ SetPressStatus0
  \/ SetPressLoopPress
  \/ SetPressNewStatus
  \/ SetPressStatus
  \/ SetPressFinal
  \/ VentBegin
  \/ VentSend
  \/ VentPoll
  \/ VentFinal
  \/ Del

Spec == Init /\ [][Next]_vars

\* translate_status alone, over every status word of NBits bits
NextStatus == TranslateStatus \/ Del

SpecStatus == Init /\ [][NextStatus]_vars

(***************************************************************************)
(* The two response decoders on their own: read_status and read_press      *)
(* against a transport whose next line is any text of a bounded alphabet.  *)
(* serial.Serial(..., timeout=1) lets readline() return what has arrived   *)
(* when the terminator has not, so a line may lack its "\r".               *)
(***************************************************************************)
MaxBody == 2
MaxCodecPress == 25

CodecChars == {"0", "1", "7", "a"}

Bodies == UNION {[1..n -> CodecChars] : n \in 1..MaxBody}

StatusTexts == Bodies \cup {Append(b, CR) : b \in Bodies}

CodecPressLines ==
  {PressLine(p, sep) : p \in 0..MaxCodecPress, sep \in {".", ","}}

ReadStatusPartial ==
  /\ CanCall
  /\ ser = "open"
  /\ \E binar \in BOOLEAN : \E text \in StatusTexts :
       LET r == read_status(T0, binar, text, FALSE)
       IN  Finish(Call("read_status", "", 0, TRUE, binar), r, r.exc,
                  PyInt(r.val), <<>>)
  /\ UNCHANGED Session

ReadPressLine ==
  /\ CanCall
  /\ ser = "open"
  /\ \E text \in CodecPressLines :
       LET r == read_press(T0, text, FALSE)
       IN  Finish(Call("read_press", "", 0, TRUE, FALSE), r, r.exc,
                  PyFloat(r.val), <<>>)
  /\ UNCHANGED Session

NextCodec == ReadStatusPartial \/ ReadPressLine \/ Del

SpecCodec == Init /\ [][NextCodec]_vars


(***************************************************************************)
(* Properties.                                                             *)
(***************************************************************************)
QueryOps == {"read_press", "read_status", "read_mode"}

\* the status queries among the commands written by the operation
StatusPolls == Cardinality({i \in 1..Len(io.wr) : io.wr[i] = READSTATUS})

\* C1: request/response alternation: whenever an operation writes a
\* command no line of an earlier command is still unread, and a line an
\* operation reads answers the command it wrote last.
C1_Alternation ==
  /\ io.pend = 0
  /\ io.line # NoLine => io.line.cmd = io.wr[Len(io.wr)]

\* C2: in set_press, once a status word read in the polling loop has bit 64
\* or bit 128 set, the operation has returned, with the pressure read last
\* (no step, so no command, follows the read).
C2_FatalStops ==
  (op.name = "set_press" /\ obs.fatalSeen)
    => (outcome = "returned" /\ result = PyFloat(loc.pressure_read_value))

\* C3: against a device whose pressure answers, once within the precision
\* of the target, stay within it, and whose status answers carry bit 1 only
\* then and never bit 64 or 128, set_press does not fail and the value it
\* returns is within the precision of the target.
C3_Converges ==
  (op.name = "set_press" /\ ser = "open" /\ obs.scriptOK)
    => /\ outcome \in {"running", "returned"}
       /\ outcome = "returned" => WithinPrecision(result.num, op.num)

\* C4, as claimed: vent_press(info=False) returns after as many status
\* polls as polls reported the venting valve open.
C4_PollsAsClaimed ==
  (op.name = "vent_press" /\ ~op.info /\ outcome = "returned")
    => StatusPolls = obs.setPolls

\* C4, amended: vent_press(info=False) returns after exactly n + 1 status
\* polls, the n that reported the venting valve open and the one that
\* reported it closed, written after the single @Vent command.
C4_VentPolls ==
  (op.name = "vent_press" /\ ~op.info /\ outcome = "returned")
    => /\ StatusPolls = obs.setPolls + 1
       /\ obs.polls = StatusPolls
       /\ Len(io.wr) = StatusPolls + 1
       /\ io.wr[1] = VENT

C4_Witness ==
  /\ op.name = "vent_press" /\ ~op.info /\ outcome = "returned"
  /\ obs.setPolls = 3

\* C5: a set_mode call with a mode outside Control, Measure, Vent writes
\* nothing, reads nothing, leaves the handle, its input buffer and the
\* session as they were, returns, and prints the validation message.
C5_InvalidMode ==
  [][ (ncalls' = ncalls + 1 /\ op'.name = "set_mode" /\ op'.mode \notin MODES)
        => /\ io'.wr = <<>> /\ io'.nread = 0
           /\ rx' = rx /\ ser' = ser /\ closes' = closes /\ alive' = alive
           /\ outcome' = "returned"
           /\ out' = <<InvalidModeMsg>> ]_vars

C5_Witness ==
  /\ op.name = "set_mode" /\ op.mode = "Invalid"
  /\ outcome = "returned" /\ out = <<InvalidModeMsg>>

\* C6: when the line read by read_press, read_status or read_mode is an
\* error token, the operation returns that token.
C6_ErrorToken ==
  (op.name \in QueryOps /\ pc = "idle"
     /\ rstrip_cr(io.line.chars) \in PRESS_ERRORS)
    => (outcome = "returned" /\ result = PyStr(rstrip_cr(io.line.chars)))

\* C7: no operation is executed on a session whose port could not be
\* opened.
C7_NoSessionWithoutPort == ser = "None" => ncalls = 0

\* C8: on a session that opened its port, close is not invoked before
\* teardown and has been invoked exactly once after it.
C8_ClosedOnceAtTeardown ==
  ser # "None" => /\ alive => closes = 0
                  /\ ~alive => closes = 1

\* C9: when press_connection has returned, it wrote the single command
\* @check, called readline once, and the handle is closed.
C9_CheckCloses ==
  (op.name = "press_connection" /\ outcome = "returned")
    => (ser = "closed" /\ io.wr = <<CHECK>> /\ io.nread = 1)

\* press_connection returned although its readline raised
C9_Witness ==
  /\ op.name = "press_connection" /\ outcome = "returned"
  /\ io.line = NoLine /\ alive /\ ser = "closed"

SetBits(n) == {k \in 1..NBits : (n \div Shl1(k - 1)) % 2 = 1}

Descriptions == {PRESS_STATUS[v] : v \in DOMAIN PRESS_STATUS}

BitOf(d) == CHOOSE k \in 1..NBits : PRESS_STATUS[Shl1(k - 1)] = d

\* C10: translate_status(n) prints exactly the descriptions of the bits
\* set in n, each once, in ascending bit order (one line for a single-bit
\* n, none for 0).
C10_TranslateStatus ==
  op.name = "translate_status"
    => /\ Len(out) = Cardinality(SetBits(op.num))
       /\ \A i \in 1..Len(out) :
            out[i] \in Descriptions /\ BitOf(out[i]) \in SetBits(op.num)
       /\ \A i, j \in 1..Len(out) : i < j => BitOf(out[i]) < BitOf(out[j])

C10_Witness ==
  /\ op.name = "translate_status" /\ op.num = 200
  /\ out = <<PRESS_STATUS[8], PRESS_STATUS[64], PRESS_STATUS[128]>>

(***************************************************************************)
(* C11: read_status removes only the carriage-return terminator.  For a    *)
(* response whose body (the line without its terminator, when it has one)  *)
(* is made of digits of the base in use, 2 when binar and 10 otherwise,    *)
(* the value returned is the value of all those digits, whether or not the *)
(* terminator arrived; a body with a non-digit character is a ValueError.  *)
(***************************************************************************)
Body(line) ==
  IF line # <<>> /\ line[Len(line)] = CR THEN DropLast(line) ELSE line

C11_StatusDecode ==
  (op.name = "read_status" /\ pc = "idle" /\ io.line # NoLine) =>
    LET body == Body(io.line.chars)
        base == IF op.opt THEN 2 ELSE 10
    IN  /\ (body # <<>> /\ AllDigits(body, base)) =>
              (outcome = "returned" /\ result = PyInt(DigitsVal(body, base)))
        /\ (\E i \in 1..Len(body) : ~IsDigit(body[i])) =>
              outcome = "ValueError"

(***************************************************************************)
(* C12: a pressure line with a decimal comma decodes to the value of the   *)
(* same line with a decimal point, and the text set_press writes for that  *)
(* value is the line's number in its dot form.                             *)
(***************************************************************************)
C12_CommaDot ==
  \A p \in 0..MaxCodecPress :
    (op.name = "read_press" /\ pc = "idle" /\ io.line # NoLine
       /\ io.line.chars \in {PressLine(p, ","), PressLine(p, ".")}) =>
      /\ outcome = "returned"
      /\ result = PyFloat(p)
      /\ Append(SETPRESS(result.num).payload, CR) = PressLine(p, ".")

\* read_press has decoded "1,5\r" as 1.5
C12_Witness ==
  /\ op.name = "read_press"
  /\ io.line # NoLine
  /\ io.line.chars = <<"1", ",", "5", CR>>
  /\ outcome = "returned"
  /\ result = PyFloat(15)


(***************************************************************************)
(* C13: the commands set_press writes are one @SetMode:Control, then one   *)
(* @SetPress:<target>, then only the queries @ReadPress:bar and            *)
(* @ReadStatus; neither of the first two is written again.                 *)
(***************************************************************************)
C13_WritesOfSetPress ==
  (op.name = "set_press" /\ io.wr # <<>>) =>
    /\ Len(io.wr) >= 2
    /\ io.wr[1] = SETMODE("Control")
    /\ io.wr[2] = SETPRESS(op.num)
    /\ \A i \in 3..Len(io.wr) : io.wr[i] \in {READPRESS, READSTATUS}

\* set_press has returned after polling the device
C13_Witness ==
  /\ op.name = "set_press"
  /\ outcome = "returned"
  /\ loc.iters >= 1
  /\ Len(io.wr) >= 7

(***************************************************************************)
(* C14: set_press returns through three exits only.  In the step in which  *)
(* it returns, either the status just read has bit 64 or bit 128, or the   *)
(* pressure and status the loop condition evaluated last had the pressure  *)
(* within the precision of the target, or had status bit 1.                *)
(***************************************************************************)
C14_ThreeExits ==
  [][(op'.name = "set_press" /\ outcome = "running" /\ outcome' = "returned")
       => \/ Fatal(loc'.status)
          \/ WithinPrecision(loc.pressure_read_value, op.num)
          \/ BitAnd(loc.status, 1) # 0]_vars

\* set_press has returned after polling, its last status neither fatal nor
\* a stop: the pressure exit
C14_Witness ==
  /\ op.name = "set_press"
  /\ outcome = "returned"
  /\ loc.iters >= 1
  /\ ~Fatal(loc.status)
  /\ BitAnd(loc.status, 1) = 0

(***************************************************************************)
(* C15: after @SetMode and @SetPress, set_press queries the pressure and   *)
(* the status in turn, exactly one status query after each pressure query, *)
(* so that every status word read is the one the loop tests.               *)
(***************************************************************************)
C15_OneStatusPerPressure ==
  op.name = "set_press" =>
    \A i \in 3..Len(io.wr) :
      io.wr[i] = IF i % 2 = 1 THEN READPRESS ELSE READSTATUS

(***************************************************************************)
(* C16: with show_status_change, when the status read in an iteration      *)
(* differs from the status of the iteration before, the description        *)
(* printed is that of the status just read; nothing is printed when the    *)
(* two are equal.                                                          *)
(***************************************************************************)
C16_NewStatusShown ==
  (op.name = "set_press" /\ op.opt /\ pc = "sp_status") =>
    LET new_status == py_int(DropLast(io.line.chars), 10).val
    IN  out = IF new_status # loc.status THEN translate_status(new_status)
              ELSE <<>>

(***************************************************************************)
(* C17: when the loop condition of set_press is false, at once or after    *)
(* polling, set_press issues one more pressure query and no status query,  *)
(* and the value returned is that last reading.                            *)
(***************************************************************************)
C17_FinalReading ==
  [][(op.name = "set_press" /\ pc = "sp_final")
       => /\ ~LoopGuard(loc.pressure_read_value, op.num, loc.status)
          /\ io'.wr = Append(io.wr, READPRESS)
          /\ io'.nread = io.nread + 1
          /\ pc' = "idle"
          /\ outcome' = "returned" =>
               result' = PyFloat(py_float(replace_comma(io'.line.chars)).val)
     ]_vars

\* the first readback already satisfied the loop condition: five commands
C17_Witness ==
  /\ op.name = "set_press"
  /\ outcome = "returned"
  /\ loc.iters = 0
  /\ Len(io.wr) = 5
  /\ io.wr[5] = READPRESS
  /\ result = PyFloat(py_float(replace_comma(io.line.chars)).val)

(***************************************************************************)
(* C18: vent_press(info=False) writes @Vent once and reads the ack of      *)
(* @Vent before its first status poll; every later command is the decimal  *)
(* @ReadStatus; it returns only after a poll, and only when the status     *)
(* read last has the flag tested as status & 8 clear.                      *)
(***************************************************************************)
C18_VentProtocol ==
  (op.name = "vent_press" /\ ~op.info /\ io.wr # <<>>) =>
    /\ io.wr[1] = VENT
    /\ \A i \in 2..Len(io.wr) : io.wr[i] = READSTATUS
    /\ (Len(io.wr) = 1 /\ outcome = "running") =>
          (io.nread = 1 /\ io.line.cmd = VENT)
    /\ (pc = "idle" /\ outcome = "returned") =>
          (Len(io.wr) >= 2 /\ BitAnd(loc.status, 8) = 0)

(***************************************************************************)
(* C19: tick_press(steps) writes the pulse command @tp steps times and     *)
(* nothing else; tick_vac(steps) writes @TickVac once and then steps pulse *)
(* commands; neither reads a line.                                         *)
(***************************************************************************)
C19_Ticks ==
  (pc = "idle" /\ outcome = "returned") =>
    /\ op.name = "tick_press" =>
         (io.wr = [i \in 1..op.num |-> TP] /\ io.nread = 0)
    /\ op.name = "tick_vac" =>
         (io.wr = <<TICKVAC>> \o [i \in 1..op.num |-> TP] /\ io.nread = 0)

\* tick_vac(2) has returned
C19_Witness ==
  /\ op.name = "tick_vac"
  /\ outcome = "returned"
  /\ op.num = 2
  /\ Len(io.wr) = 3

(***************************************************************************)
(* C20: no step of read_mode, set_mode, stop_press, vent_press,            *)
(* read_status, set_press, read_press, tick_press or tick_vac changes      *)
(* whether the handle is open, or closes it, so a handle that was open     *)
(* before a sequence of these calls is open after it.                      *)
(***************************************************************************)
FrameOps ==
  {"read_mode", "set_mode", "stop_press", "vent_press", "read_status",
   "set_press", "read_press", "tick_press", "tick_vac"}

C20_PortKept ==
  [][(alive' /\ op'.name \in FrameOps) => (ser' = ser /\ closes' = closes)]_vars

\* two of these calls have been made on an open handle, the second of them
\* stop_press, and the handle is open
C20_Witness ==
  /\ op.name = "stop_press"
  /\ outcome = "returned"
  /\ ncalls = 2
  /\ ser = "open"
  /\ closes = 0

====
